---------------------------- MODULE Spec2Model ----------------------------
(***************************************************************************)
(* albumconv: CSV-driven batch conversion of audio tracks with ffmpeg.     *)
(*                                                                         *)
(* The model covers src/main.rs: the Track rows read from the CSV file,    *)
(* Args::convert_track (artist resolution, filename prefix, output file,   *)
(* metadata arguments, encoder invocation) and run()/main(): the thread    *)
(* pool, the CSV reader and the output directory are set up, the rows are  *)
(* parsed, and the tracks are converted by rayon's                         *)
(* par_iter().try_for_each on the global thread pool.                      *)
(*                                                                         *)
(* Text is a sequence of tokens.  A token is one character of a value      *)
(* ("a", "3", "-") or one literal chunk of a format string ("title=",      *)
(* ".flac"); the empty text is << >>.  Option<T> is a sequence of length   *)
(* at most one: None is << >> and Some(v) is << v >>.                      *)
(***************************************************************************)
EXTENDS Integers, Sequences, FiniteSets, TLC

None == << >>
Some(v) == << v >>
IsSome(o) == o # << >>
Unwrap(o) == o[1]

Max(a, b) == IF a >= b THEN a ELSE b

(***************************************************************************)
(* Bounds of the model.                                                    *)
(***************************************************************************)
\* Longest manifest explored by the batch specification.
MaxTracks == 3
\* Largest value given to --threads.
MaxThreads == 2
\* Number of CPU cores of the host (rayon's default pool size).
NumCpus == 1
\* Length of the long manifest run with one worker thread.
LongTracks == 16
\* Thread count given by the environment, and the longest manifest explored
\* with it.
EnvThreads == 2
EnvTracks == 2

(***************************************************************************)
(* Formatting and parsing of numbers.                                      *)
(***************************************************************************)
Digits == <<"0", "1", "2", "3", "4", "5", "6", "7", "8", "9">>

DigitChar(d) == Digits[d + 1]

DigitVal(c) == CHOOSE d \in 0..9 : Digits[d + 1] = c

\* Display for u32: "{disc}", "{track}".
RECURSIVE Dec(_)
Dec(n) == IF n < 10 THEN <<DigitChar(n)>>
          ELSE Append(Dec(n \div 10), DigitChar(n % 10))

Pad2Unpadded(n) == Dec(n)

\* "{track:02}": zero-padded to a minimum width of two.
Pad2(n) == IF Len(Dec(n)) < 2 THEN <<"0">> \o Dec(n) ELSE Dec(n)

\* u32::from_str takes an optional "+" before the digits.
StripPlus(s) == IF s # << >> /\ s[1] = "+" THEN Tail(s) ELSE s

RECURSIVE StripZeros(_)
StripZeros(s) == IF s # << >> /\ s[1] = "0" THEN StripZeros(Tail(s)) ELSE s

IsDigit(c) == \E d \in 0..9 : Digits[d + 1] = c

\* The digits of u32::MAX, 4294967295.
U32MaxDigits == <<"4", "2", "9", "4", "9", "6", "7", "2", "9", "5">>

\* a <= b for two digit strings of the same length.
RECURSIVE DigitsLeq(_, _)
DigitsLeq(a, b) ==
    IF a = << >> THEN TRUE
    ELSE IF DigitVal(a[1]) # DigitVal(b[1]) THEN DigitVal(a[1]) < DigitVal(b[1])
    ELSE DigitsLeq(Tail(a), Tail(b))

\* The number written by the digits d fits in 32 bits.
FitsU32(d) ==
    LET z == StripZeros(d) IN
    \/ Len(z) < Len(U32MaxDigits)
    \/ Len(z) = Len(U32MaxDigits) /\ DigitsLeq(z, U32MaxDigits)

\* A text that u32::from_str accepts: an optional "+", then one or more
\* decimal digits of a number that fits in 32 bits.
IsDec(s) ==
    LET d == StripPlus(s) IN
    /\ d # << >>
    /\ \A k \in 1..Len(d) : IsDigit(d[k])
    /\ FitsU32(d)

RECURSIVE ParseDigits(_)
ParseDigits(s) == IF s = << >> THEN 0
                  ELSE 10 * ParseDigits(SubSeq(s, 1, Len(s) - 1)) + DigitVal(s[Len(s)])

\* u32::from_str on a text it accepts.
ParseDec(s) == ParseDigits(StripPlus(s))

\* Hexadecimal digits, for u32::from_str_radix(_, 16).
HexDigits == <<"0", "1", "2", "3", "4", "5", "6", "7", "8", "9",
               "a", "b", "c", "d", "e", "f">>
HexUpper == <<"0", "1", "2", "3", "4", "5", "6", "7", "8", "9",
              "A", "B", "C", "D", "E", "F">>

IsHexDigit(c) == \E d \in 0..15 : HexDigits[d + 1] = c \/ HexUpper[d + 1] = c

HexVal(c) == CHOOSE d \in 0..15 : HexDigits[d + 1] = c \/ HexUpper[d + 1] = c

\* A text that u32::from_str_radix(_, 16) accepts: at most eight significant
\* hexadecimal digits fit in 32 bits.
IsHex(s) ==
    LET d == StripPlus(s) IN
    /\ d # << >>
    /\ \A k \in 1..Len(d) : IsHexDigit(d[k])
    /\ Len(StripZeros(d)) <= 8

RECURSIVE ParseHexDigits(_)
ParseHexDigits(s) ==
    IF s = << >> THEN 0
    ELSE 16 * ParseHexDigits(SubSeq(s, 1, Len(s) - 1)) + HexVal(s[Len(s)])

ParseHex(s) == ParseHexDigits(StripPlus(s))

\* The csv deserializer reads an integer field that starts with "0x" as
\* hexadecimal and any other with from_str.
HasHexPrefix(s) == Len(s) >= 2 /\ s[1] = "0" /\ s[2] = "x"

IsU32Field(s) ==
    IF HasHexPrefix(s) THEN IsHex(SubSeq(s, 3, Len(s))) ELSE IsDec(s)

ParseU32Field(s) ==
    IF HasHexPrefix(s) THEN ParseHex(SubSeq(s, 3, Len(s))) ELSE ParseDec(s)

(***************************************************************************)
(* The CSV reader: csv::Trim::All and the derived Deserialize of Track.    *)
(***************************************************************************)
\* The characters with the Unicode property White_Space, which str::trim
\* removes; all but the space are written by their code point.
WhiteSpace ==
    {" ", "U+0009", "U+000A", "U+000B", "U+000C", "U+000D", "U+0085", "U+00A0",
     "U+1680", "U+2000", "U+2001", "U+2002", "U+2003", "U+2004", "U+2005",
     "U+2006", "U+2007", "U+2008", "U+2009", "U+200A", "U+2028", "U+2029",
     "U+202F", "U+205F", "U+3000"}

IsSpace(c) == c \in WhiteSpace

RECURSIVE TrimStart(_)
TrimStart(s) == IF s # << >> /\ IsSpace(s[1]) THEN TrimStart(Tail(s)) ELSE s

RECURSIVE TrimEnd(_)
TrimEnd(s) == IF s # << >> /\ IsSpace(s[Len(s)])
              THEN TrimEnd(SubSeq(s, 1, Len(s) - 1)) ELSE s

Trim(s) == TrimEnd(TrimStart(s))

\* Option<String>: an empty field is None.
OptString(field) == IF Trim(field) = << >> THEN None ELSE Some(Trim(field))

\* Option<u32>: an empty field is None.
OptU32(field) ==
    IF Trim(field) = << >> THEN None ELSE Some(ParseU32Field(Trim(field)))

\* The columns of the CSV file, named by its header record.
Header == <<"file", "disc", "track", "title", "artist">>

\* Whether a CSV record deserializes: a record with another number of fields
\* than the header, or a disc or track field that is neither empty nor a
\* number of 32 bits, is an error.  row.len is the number of fields of the
\* record.
RowOk(row) ==
    /\ row.len = Len(Header)
    /\ Trim(row.disc) # << >> => IsU32Field(Trim(row.disc))
    /\ Trim(row.track) # << >> => IsU32Field(Trim(row.track))

\* One CSV record of raw fields, by column name, to a Track.
Track(row) ==
    [file   |-> Trim(row.file),
     disc   |-> OptU32(row.disc),
     track  |-> OptU32(row.track),
     title  |-> Trim(row.title),
     artist |-> OptString(row.artist)]

(***************************************************************************)
(* deunicode: ASCII is kept, other characters become their ASCII           *)
(* transliteration (possibly several characters).                          *)
(***************************************************************************)
DeunicodeChar(c) ==
    CASE c = "U+00E9" -> <<"e">>          \* e with acute accent
      [] c = "U+00DF" -> <<"s", "s">>     \* sharp s
      [] c = "U+00A0" -> <<" ">>          \* no-break space
      [] OTHER -> <<c>>

RECURSIVE deunicode(_)
deunicode(s) == IF s = << >> THEN << >>
                ELSE DeunicodeChar(s[1]) \o deunicode(Tail(s))

(***************************************************************************)
(* Args::convert_track, up to the point where the command is run.          *)
(***************************************************************************)
\* Path::join (PathBuf::push): an absolute right-hand side replaces the
\* left-hand side; otherwise a separator is added unless the left-hand side
\* is empty or ends with one already.  The separator "/" is a token of its
\* own in a path.
PathJoin(dir, p) ==
    IF p # << >> /\ p[1] = "/" THEN p
    ELSE IF dir = << >> \/ dir[Len(dir)] = "/" THEN dir \o p
    ELSE dir \o <<"/">> \o p

input_file(args, track) ==
    IF IsSome(args.input_dir) THEN PathJoin(Unwrap(args.input_dir), track.file)
    ELSE track.file

ArtistAlbumFirst(args, track) ==
    IF IsSome(args.album_artist) THEN args.album_artist ELSE track.artist

\* track.artist.as_deref().or(self.album_artist.as_deref())
EffectiveArtist(args, track) ==
    IF IsSome(track.artist) THEN track.artist ELSE args.album_artist

\* match (track.disc, track.track)
Prefix(disc, track) ==
    CASE IsSome(disc) /\ IsSome(track) ->
             Dec(Unwrap(disc)) \o <<".">> \o Pad2(Unwrap(track)) \o <<"-">>
      [] IsSome(disc) /\ ~IsSome(track) -> Dec(Unwrap(disc)) \o <<"-">>
      [] ~IsSome(disc) /\ IsSome(track) -> Pad2(Unwrap(track)) \o <<"-">>
      [] OTHER -> << >>

\* format!("{prefix}{artist}-{title}.flac") with deunicode on artist and title
FileName(prefix, artist, title) ==
    prefix \o deunicode(artist) \o <<"-">> \o deunicode(title) \o <<".flac">>

output_file(args, track, artist) ==
    PathJoin(args.output_dir, FileName(Prefix(track.disc, track.track), artist, track.title))

\* maybe_metadata for a string value
maybe_metadata(key, val) ==
    IF IsSome(val) THEN <<key>> \o Unwrap(val) ELSE << >>

\* maybe_metadata for a u32 value (Display of the number)
maybe_metadata_u32(key, val) ==
    IF IsSome(val) THEN <<key>> \o Dec(Unwrap(val)) ELSE << >>

metadata(args, track, artist) ==
    << <<"title=">> \o track.title,
       <<"artist=">> \o artist,
       maybe_metadata("album=", args.album_title),
       maybe_metadata("album_artist=", args.album_artist),
       maybe_metadata("date=", args.date),
       maybe_metadata_u32("disc=", track.disc),
       maybe_metadata_u32("track=", track.track) >>

\* metadata.iter().filter(|s| !s.is_empty())
RECURSIVE FilterNonEmpty(_)
FilterNonEmpty(ms) ==
    IF ms = << >> THEN << >>
    ELSE IF ms[1] # << >> THEN <<ms[1]>> \o FilterNonEmpty(Tail(ms))
         ELSE FilterNonEmpty(Tail(ms))

MetadataArgs(args, track, artist) == FilterNonEmpty(metadata(args, track, artist))

\* each metadata value is passed as "-metadata" followed by "key=value"
RECURSIVE WithFlag(_)
WithFlag(ms) == IF ms = << >> THEN << >>
                ELSE << <<"-metadata">>, ms[1] >> \o WithFlag(Tail(ms))

\* The argument vector of the ffmpeg command.
cmd(args, track, artist) ==
    << <<"-hide_banner">>, <<"-nostdin">>, <<"-i">>, input_file(args, track) >>
    \o (IF IsSome(args.cover)
        THEN << <<"-i">>, Unwrap(args.cover),
                <<"-map">>, <<"0:a">>, <<"-map">>, <<"1:v">> >>
        ELSE << <<"-map">>, <<"0:a">> >>)
    \o WithFlag(MetadataArgs(args, track, artist))
    \o (IF IsSome(args.cover)
        THEN << <<"-c:v">>, <<"copy">>, <<"-disposition:v">>, <<"attached_pic">>,
                <<"-metadata:s:v">>, <<"comment=Cover (front)">> >>
        ELSE << >>)
    \o << <<"-c:a">>, <<"flac">>, <<"-y">>, output_file(args, track, artist) >>

\* The job convert_track builds for a track: either the error of a missing
\* artist (naming track.file), or the command to run.
Build(args, track) ==
    LET a == EffectiveArtist(args, track) IN
    IF ~IsSome(a)
    THEN [err    |-> Some(<<"Unable to determine artist for track ">> \o track.file
                          \o <<". Fill in the 'artist' CSV column or use --album-artist">>),
          artist |-> None,
          out    |-> None,
          meta   |-> << >>,
          argv   |-> << >>]
    ELSE [err    |-> None,
          artist |-> a,
          out    |-> Some(output_file(args, track, Unwrap(a))),
          meta   |-> MetadataArgs(args, track, Unwrap(a)),
          argv   |-> cmd(args, track, Unwrap(a))]


NoJob == [err |-> None, artist |-> None, out |-> None, meta |-> << >>, argv |-> << >>]

(***************************************************************************)
(* Inputs of a run: the parsed command line and the rows of the CSV file.  *)
(***************************************************************************)
\* Values of --threads: not given, 0, or a positive number.
ThreadsOpts == {None} \cup {Some(n) : n \in 0..MaxThreads}

BaseArgs ==
    [input_dir    |-> None,
     cover        |-> None,
     album_title  |-> None,
     album_artist |-> None,
     date         |-> None,
     threads      |-> None,
     verbose      |-> FALSE,
     output_dir   |-> <<"out">>]

\* Rows of the batch runs: a track with its artist, a track whose artist
\* column is blank, and a row whose disc column is not a number.  No
\* --album-artist is given in these runs.
GoodRow ==
    [file |-> <<"a.wav">>, disc |-> <<"1">>, track |-> <<"1">>,
     title |-> <<"S">>, artist |-> <<"e">>, len |-> Len(Header)]

BatchRows ==
    {GoodRow,
     [GoodRow EXCEPT !.file = <<"b.wav">>, !.artist = <<" ">>],
     [GoodRow EXCEPT !.file = <<"c.wav">>, !.disc = <<"x">>]}

\* Rows and command lines of the single-track runs.
BuildRows ==
    { [file |-> <<"a.wav">>, disc |-> d, track |-> t, title |-> ti, artist |-> ar,
       len |-> Len(Header)] :
        d \in {<< >>, <<"1">>, <<"1", "2">>},
        t \in {<< >>, <<"3">>, <<" ", "1", "0">>, <<"1", "0", "0">>},
        ti \in {<< >>, <<"S">>, <<"U+00E9", "-", "U+00DF">>},
        ar \in {<< >>, <<" ">>, <<"A">>, <<" ", "U+00E9">>} }
    \cup {[GoodRow EXCEPT !.track = <<"1", "x">>],
          [GoodRow EXCEPT !.track = <<"4", "2", "9", "4", "9", "6", "7", "2", "9", "6">>],
          [GoodRow EXCEPT !.disc = <<"+">>],
          [GoodRow EXCEPT !.disc = <<"U+0009", "1", "U+000D">>, !.track = <<"U+00A0">>,
                          !.artist = <<"U+3000", "U+0009">>],
          [GoodRow EXCEPT !.artist = << >>, !.len = Len(Header) - 1],
          [GoodRow EXCEPT !.disc = <<"+", "1">>, !.track = <<"0", "x", "1", "F">>],
          [GoodRow EXCEPT !.disc = <<"0", "0", "2">>, !.track = <<"+", "0", "3">>]}

BuildArgs ==
    { [BaseArgs EXCEPT !.input_dir = io[1], !.cover = io[2], !.output_dir = io[3],
                       !.album_title = at, !.album_artist = aa, !.date = dt] :
        io \in { <<None, None, <<"out">> >>,
                 <<Some(<<"in">>), Some(<<"c.jpg">>), <<"out", "/">> >>,
                 <<Some(<<"in", "/">>), None, << >> >>,
                 <<Some(<< >>), Some(<<"c.jpg">>), <<"/">> >> },
        at \in {None, Some(<< >>), Some(<<"L">>)},
        aa \in {None, Some(<< >>), Some(<<"V">>)},
        dt \in {None, Some(<<"2", "0", "2", "0">>)} }

BatchArgs == { [BaseArgs EXCEPT !.threads = th] : th \in ThreadsOpts }

\* The environment: neither variable set, or a thread count given by one of
\* them.
NoEnv == [RAYON_NUM_THREADS |-> None, RAYON_RS_NUM_CPUS |-> None]

EnvOpts ==
    { [RAYON_NUM_THREADS |-> Some(EnvThreads), RAYON_RS_NUM_CPUS |-> None],
      [RAYON_NUM_THREADS |-> Some(0), RAYON_RS_NUM_CPUS |-> Some(EnvThreads)],
      [RAYON_NUM_THREADS |-> None, RAYON_RS_NUM_CPUS |-> Some(EnvThreads)] }

\* The encoder: whether an ffmpeg executable is found at all, and the exit
\* status of the process run for each track.
ExitStatuses == {"ok", "nonzero"}

(***************************************************************************)
(* State.                                                                  *)
(***************************************************************************)
VARIABLES
    args,        \* the parsed command line (Args)
    env,         \* environment: the numbers in RAYON_NUM_THREADS and
                 \*   RAYON_RS_NUM_CPUS, None when unset or not a number
    rows,        \* environment: the records of the CSV file
    setup,       \* how the steps of run() before the conversion ended
    outdir,      \* whether create_dir_all has made the output directory
    tracks,      \* Vec<Track> collected from the CSV reader
    ffmpeg,      \* environment: [found, exit], the encoder's behaviour
    pc,          \* main thread: "start", "run", "pool", "returned", "exit"
    task,        \* rayon: the helper() calls of bridge_producer_consumer
    stack,       \* rayon: per thread, the helper() calls it is inside of
    deque,       \* rayon: per worker, the jobs pushed by join_context
    injected,    \* rayon: the root join waits in the pool's injector queue
    full,        \* rayon: TryReduceConsumer's shared AtomicBool
    job,         \* per track: what convert_track built (NoJob before the call)
    outcome,     \* per track: "none", "ok", "missing_artist", "spawn_failed",
                 \*            "encode_failed"
    calls,       \* per track: number of convert_track invocations
    spawns,      \* per track: number of encoder processes started
    procs,       \* encoder processes running now: [track, worker]
    result,      \* value run() returned: 0 is Ok(()), i is the Err of track i,
                 \*   SetupFailed the Err of a step before the conversion
    exit_code,   \* process exit code, -1 while running
    first,       \* history: the track whose Err was produced first, or 0
    atfail,      \* history: the encoder processes running at that moment
    stopped      \* history: threads that produced an Err or read full = true

vars == <<args, env, rows, setup, outdir, tracks, ffmpeg, pc, task, stack, deque, injected, full, job,
          outcome, calls, spawns, procs, result, exit_code, first, atfail,
          stopped>>

\* Number of records of the manifest.
N == Len(rows)

\* run() returned the error of one of the steps before the conversion.
SetupFailed == -1

\* ThreadPoolBuilder::get_num_threads: a positive num_threads is taken as it
\* is; 0 (or no call at all) selects the default, which is a positive
\* RAYON_NUM_THREADS, else (unless that is 0) a positive RAYON_RS_NUM_CPUS,
\* else the number of CPU cores.
num_threads(a, e) ==
    IF IsSome(a.threads) /\ Unwrap(a.threads) > 0 THEN Unwrap(a.threads)
    ELSE IF IsSome(e.RAYON_NUM_THREADS) /\ Unwrap(e.RAYON_NUM_THREADS) > 0
         THEN Unwrap(e.RAYON_NUM_THREADS)
    ELSE IF e.RAYON_NUM_THREADS = Some(0) THEN NumCpus
    ELSE IF IsSome(e.RAYON_RS_NUM_CPUS) /\ Unwrap(e.RAYON_RS_NUM_CPUS) > 0
         THEN Unwrap(e.RAYON_RS_NUM_CPUS)
    ELSE NumCpus

\* Number of worker threads of the global pool.
PoolSize == num_threads(args, env)

MainThread == 0
Workers == 1..PoolSize
Threads == {MainThread} \cup Workers

Failures == {"missing_artist", "spawn_failed", "encode_failed"}

Top(w) == stack[w][Len(stack[w])]
Pop(s) == SubSeq(s, 1, Len(s) - 1)

NewTask(lo, hi, splits, st) ==
    [lo |-> lo, hi |-> hi, splits |-> splits, mig |-> FALSE, st |-> st,
     pos |-> lo, res |-> 0]

TypeOK ==
    /\ pc \in {"start", "run", "pool", "returned", "exit"}
    /\ setup \in {"pending", "ok", "pool_error", "open_error", "mkdir_error",
                  "parse_error"}
    /\ outdir \in BOOLEAN
    /\ setup \notin {"pending", "ok"} => tracks = << >>
    /\ setup = "ok" => tracks = [i \in 1..N |-> Track(rows[i])]
    /\ full \in BOOLEAN
    /\ injected \in BOOLEAN
    /\ \A i \in 1..N : outcome[i] \in {"none", "ok"} \cup Failures
    /\ result \in {SetupFailed} \cup 0..N
    /\ exit_code \in {-1, 0, 1}

\* The state at the start of run(), after Args::parse.
InitRun(a, e, ts, enc) ==
    /\ args = a
    /\ env = e
    /\ rows = ts
    /\ setup = "pending"
    /\ outdir = FALSE
    /\ tracks = << >>
    /\ ffmpeg = enc
    /\ pc = "start"
    /\ task = (1 :> NewTask(1, Len(ts) + 1, num_threads(a, e), "entry"))
    /\ stack = [w \in 0..num_threads(a, e) |-> IF w = 0 THEN <<1>> ELSE << >>]
    /\ deque = [w \in 1..num_threads(a, e) |-> << >>]
    /\ injected = FALSE
    /\ full = FALSE
    /\ job = [i \in 1..Len(ts) |-> NoJob]
    /\ outcome = [i \in 1..Len(ts) |-> "none"]
    /\ calls = [i \in 1..Len(ts) |-> 0]
    /\ spawns = [i \in 1..Len(ts) |-> 0]
    /\ procs = {}
    /\ result = 0
    /\ exit_code = -1
    /\ first = 0
    /\ atfail = {}
    /\ stopped = {}

\* No encoder is ever started for row i: the manifest does not parse, the
\* artist is missing, or there is no ffmpeg executable.
NeverStarted(a, rs, i, found) ==
    \/ \E k \in 1..Len(rs) : ~RowOk(rs[k])
    \/ IsSome(Build(a, Track(rs[i])).err)
    \/ ~found

\* Runs over every manifest of up to MaxTracks rows, every --threads value
\* and every behaviour of the encoder.
InitBatch ==
    \E a \in BatchArgs, n \in 0..MaxTracks :
      \E rs \in [1..n -> BatchRows], ex \in [1..n -> ExitStatuses],
         found \in BOOLEAN :
        \* the exit status of a process that is never started is left "ok"
        /\ \A i \in 1..n : NeverStarted(a, rs, i, found) => ex[i] = "ok"
        /\ (\E i \in 1..n : ~RowOk(rs[i])) => found
        /\ InitRun(a, NoEnv, rs, [found |-> found, exit |-> ex])

\* Runs with --threads 1 over a manifest long enough for a leaf task to hold
\* several tracks; at most one encoder exits with a non-zero status.
InitLong ==
    \E bad \in 0..LongTracks :
      InitRun([BaseArgs EXCEPT !.threads = Some(1)], NoEnv,
              [i \in 1..LongTracks |-> GoodRow],
              [found |-> TRUE,
               exit |-> [i \in 1..LongTracks |-> IF i = bad THEN "nonzero" ELSE "ok"]])

\* Runs with a thread count given by the environment, over manifests of up
\* to EnvTracks rows.
InitEnv ==
    \E a \in BatchArgs, e \in EnvOpts, n \in 1..EnvTracks :
      \E rs \in [1..n -> BatchRows], ex \in [1..n -> ExitStatuses],
         found \in BOOLEAN :
        /\ \A i \in 1..n : NeverStarted(a, rs, i, found) => ex[i] = "ok"
        /\ (\E i \in 1..n : ~RowOk(rs[i])) => found
        /\ InitRun(a, e, rs, [found |-> found, exit |-> ex])

Init == InitBatch \/ InitLong \/ InitEnv

\* A run over a single row, for every row of BuildRows and every command line
\* of BuildArgs.
InitBuild ==
    \E a \in BuildArgs, row \in BuildRows, found \in BOOLEAN, ex \in ExitStatuses :
        /\ NeverStarted(a, <<row>>, 1, found) => ex = "ok"
        /\ ~RowOk(row) => found
        /\ InitRun(a, NoEnv, <<row>>, [found |-> found, exit |-> <<ex>>])

(***************************************************************************)
(* run() before the conversion: the global thread pool is built when       *)
(* --threads is given, the CSV file is opened, the output directory is     *)
(* created and the records are deserialized.  Each step can fail, and run() *)
(* then returns its error at once.                                         *)
(***************************************************************************)
\* The ways these steps can end for a command line and a manifest.  Building
\* the pool, opening the file, creating the directory and reading the file
\* fail or not by the environment; deserializing fails for certain if a
\* record is malformed.
SetupResults(a, rs) ==
    (IF IsSome(a.threads) THEN {"pool_error"} ELSE {})
    \cup {"open_error", "mkdir_error", "parse_error"}
    \cup (IF \A i \in 1..Len(rs) : RowOk(rs[i]) THEN {"ok"} ELSE {})

\* create_dir_all comes after the pool and the reader and before the records
\* are deserialized.
DirCreated(e) == e \in {"ok", "parse_error"}

Setup ==
    /\ pc = "start"
    /\ \E e \in SetupResults(args, rows) :
         /\ setup' = e
         /\ outdir' = DirCreated(e)
         /\ IF e = "ok"
            THEN /\ tracks' = [i \in 1..N |-> Track(rows[i])]
                 /\ pc' = "run"
                 /\ UNCHANGED result
            ELSE /\ pc' = "returned"
                 /\ result' = SetupFailed
                 /\ UNCHANGED tracks
    /\ UNCHANGED <<args, env, rows, ffmpeg, task, stack, deque, injected, full, job,
                   outcome, calls, spawns, procs, exit_code, first, atfail, stopped>>

(***************************************************************************)
(* rayon: bridge_producer_consumer over the slice of tracks, with the      *)
(* consumer of try_for_each (map + try_reduce).  A task is one call of     *)
(* helper() on the tracks lo .. hi-1.                                      *)
(***************************************************************************)
\* LengthSplitter::try_split: a task of two or more tracks is split while
\* splits remain, and always when it runs on another thread than its parent.
CanSplit(t) ==
    /\ (t.hi - t.lo) \div 2 >= 1
    /\ (t.mig \/ t.splits > 0)

SplitsAfter(t) ==
    IF t.mig THEN Max(PoolSize, t.splits \div 2) ELSE t.splits \div 2

Mid(t) == t.lo + (t.hi - t.lo) \div 2

ConsumerFullNever == FALSE

\* TryReduceConsumer::full, read at the start of helper().
ConsumerFull == full

\* TryReduceFolder::full, read after an Ok item was folded.
FolderFull == full

ReduceRightFirst(left, right) == IF right # 0 THEN right ELSE left

\* TryReduceConsumer::reduce: the left Err wins.
Reduce(left, right) == IF left # 0 THEN left ELSE right

\* helper() returns r from task t on thread w.
Finish(w, t, r) ==
    /\ task' = [task EXCEPT ![t].st = "done", ![t].res = r]
    /\ stack' = [stack EXCEPT ![w] = Pop(@)]

\* helper(): stop if the consumer is full, else split or fold.
HelperEntry(w) ==
    /\ pc \in {"run", "pool"}
    /\ stack[w] # << >>
    /\ task[Top(w)].st = "entry"
    /\ LET t == Top(w)
           T == task[t]
           kid == NewTask(T.lo, T.hi, SplitsAfter(T), "queued")
       IN IF ConsumerFull
          THEN /\ Finish(w, t, 0)
               /\ stopped' = stopped \cup {w}
               /\ UNCHANGED <<deque, injected, pc>>
          ELSE IF CanSplit(T)
          THEN IF w = MainThread
               THEN \* join_context outside the pool: the join is injected and
                    \* the main thread blocks until it is done
                    /\ task' = [task EXCEPT ![t].st = "split"]
                                @@ (2 * t :> [kid EXCEPT !.hi = Mid(T)])
                                @@ (2 * t + 1 :> [kid EXCEPT !.lo = Mid(T), !.pos = Mid(T)])
                    /\ stack' = [stack EXCEPT ![w] = << >>]
                    /\ injected' = TRUE
                    /\ pc' = "pool"
                    /\ UNCHANGED <<deque, stopped>>
               ELSE \* join_context on a worker: push b, run a
                    /\ task' = [task EXCEPT ![t].st = "split"]
                                @@ (2 * t :> [kid EXCEPT !.hi = Mid(T), !.st = "entry"])
                                @@ (2 * t + 1 :> [kid EXCEPT !.lo = Mid(T), !.pos = Mid(T)])
                    /\ stack' = [stack EXCEPT ![w] = Append(@, 2 * t)]
                    /\ deque' = [deque EXCEPT ![w] = Append(@, 2 * t + 1)]
                    /\ UNCHANGED <<injected, pc, stopped>>
          ELSE \* producer.fold_with(folder): the first item is taken next
               /\ IF T.lo < T.hi
                  THEN /\ task' = [task EXCEPT ![t].st = "ready", ![t].pos = T.lo]
                       /\ UNCHANGED stack
                  ELSE Finish(w, t, 0)
               /\ UNCHANGED <<deque, injected, pc, stopped>>
    /\ UNCHANGED <<args, env, rows, setup, outdir, tracks, ffmpeg, full, job, outcome, calls, spawns, procs,
                   result, exit_code, first, atfail>>

\* A worker takes the injected root join: it pushes the right half on its
\* deque and runs the left half.  All workers are idle and alike at this
\* point; the one that wakes up first is numbered 1.
TakeInjected(w) ==
    /\ pc = "pool"
    /\ injected
    /\ w = 1
    /\ stack[w] = << >>
    /\ injected' = FALSE
    /\ stack' = [stack EXCEPT ![w] = <<1, 2>>]
    /\ deque' = [deque EXCEPT ![w] = Append(@, 3)]
    /\ task' = [task EXCEPT ![2].st = "entry", ![2].mig = TRUE]
    /\ UNCHANGED <<args, env, rows, setup, outdir, tracks, ffmpeg, pc, full, job, outcome, calls, spawns,
                   procs, result, exit_code, first, atfail, stopped>>

FoldBreaksEarly(w, t, r) ==
    IF r # 0
    THEN /\ full' = TRUE
         /\ Finish(w, t, r)
         /\ stopped' = stopped \cup {w}
    ELSE /\ Finish(w, t, 0)
         /\ UNCHANGED <<full, stopped>>

\* TryReduceFolder::consume of the item r that convert_track returned for
\* a track (0 is Ok, i is the Err of track i), then Folder::consume_iter: an Err is kept, the
\* shared flag is set and the fold of the leaf ends; after an Ok the fold
\* stops if the flag is set, else goes on to the next track, if any.
Fold(w, t, r) ==
    IF r # 0
    THEN /\ full' = TRUE
         /\ Finish(w, t, r)
         /\ stopped' = stopped \cup {w}
    ELSE IF FolderFull
    THEN /\ Finish(w, t, 0)
         /\ stopped' = stopped \cup {w}
         /\ UNCHANGED full
    ELSE /\ IF task[t].pos + 1 < task[t].hi
            THEN /\ task' = [task EXCEPT ![t].st = "ready", ![t].pos = @ + 1]
                 /\ UNCHANGED stack
            ELSE Finish(w, t, 0)
         /\ UNCHANGED <<full, stopped>>

\* convert_track is called on the next track of a leaf: the job is built and,
\* unless the artist is missing, the encoder is started (cmd.output()).  An
\* error at this point is returned and folded at once.
StartJob(w) ==
    /\ pc \in {"run", "pool"}
    /\ stack[w] # << >>
    /\ task[Top(w)].st = "ready"
    /\ LET t == Top(w)
           i == task[t].pos
           b == Build(args, tracks[i])
       IN /\ calls' = [calls EXCEPT ![i] = @ + 1]
          /\ job' = [job EXCEPT ![i] = b]
          /\ IF IsSome(b.err)
             THEN /\ outcome' = [outcome EXCEPT ![i] = "missing_artist"]
                  /\ first' = IF first = 0 THEN i ELSE first
                  /\ atfail' = IF first = 0 THEN procs ELSE atfail
                  /\ Fold(w, t, i)
                  /\ UNCHANGED <<spawns, procs>>
             ELSE IF ~ffmpeg.found
             THEN /\ outcome' = [outcome EXCEPT ![i] = "spawn_failed"]
                  /\ first' = IF first = 0 THEN i ELSE first
                  /\ atfail' = IF first = 0 THEN procs ELSE atfail
                  /\ Fold(w, t, i)
                  /\ UNCHANGED <<spawns, procs>>
             ELSE /\ spawns' = [spawns EXCEPT ![i] = @ + 1]
                  /\ procs' = procs \cup {[track |-> i, worker |-> w]}
                  /\ task' = [task EXCEPT ![t].st = "inflight"]
                  /\ UNCHANGED <<outcome, first, atfail, stack, full, stopped>>
    /\ UNCHANGED <<args, env, rows, setup, outdir, tracks, ffmpeg, pc, deque, injected, result, exit_code>>

\* The encoder exits: cmd.output() returns, convert_track returns Ok or Err
\* by the exit status, and the result is folded.
EncoderExit(w) ==
    /\ stack[w] # << >>
    /\ task[Top(w)].st = "inflight"
    /\ LET t == Top(w)
           i == task[t].pos
           ok == ffmpeg.exit[i] = "ok"
       IN /\ procs' = {p \in procs : p.worker # w}
          /\ outcome' = [outcome EXCEPT ![i] = IF ok THEN "ok" ELSE "encode_failed"]
          /\ first' = IF first = 0 /\ ~ok THEN i ELSE first
          /\ atfail' = IF first = 0 /\ ~ok THEN procs' ELSE atfail
          /\ Fold(w, t, IF ok THEN 0 ELSE i)
    /\ UNCHANGED <<args, env, rows, setup, outdir, tracks, ffmpeg, pc, deque, injected, job, calls, spawns,
                   result, exit_code>>

\* join_context after a returned: b is popped from the own deque and run
\* inline, or, if it was taken by another thread, waited for.
JoinB(w) ==
    /\ stack[w] # << >>
    /\ task[Top(w)].st = "split"
    /\ LET t == Top(w)
           b == 2 * t + 1
       IN IF deque[w] # << >> /\ deque[w][Len(deque[w])] = b
          THEN /\ deque' = [deque EXCEPT ![w] = Pop(@)]
               /\ stack' = [stack EXCEPT ![w] = Append(@, b)]
               /\ task' = [task EXCEPT ![t].st = "inline", ![b].st = "entry",
                                       ![b].mig = (t = 1)]
          ELSE /\ task' = [task EXCEPT ![t].st = "wait"]
               /\ UNCHANGED <<deque, stack>>
    /\ UNCHANGED <<args, env, rows, setup, outdir, tracks, ffmpeg, pc, injected, full, job, outcome, calls,
                   spawns, procs, result, exit_code, first, atfail, stopped>>

\* A thread with nothing to run (idle, or waiting for a stolen b) finds work:
\* the newest job of its own deque, else the oldest job of another deque.
TakeWork(w) ==
    /\ w \in Workers
    /\ \/ stack[w] = << >>
       \/ /\ stack[w] # << >>
          /\ task[Top(w)].st = "wait"
          /\ task[2 * Top(w) + 1].st # "done"
    /\ IF deque[w] # << >>
       THEN LET j == deque[w][Len(deque[w])] IN
            /\ deque' = [deque EXCEPT ![w] = Pop(@)]
            /\ stack' = [stack EXCEPT ![w] = Append(@, j)]
            /\ task' = [task EXCEPT ![j].st = "entry", ![j].mig = TRUE]
       ELSE \E v \in Workers \ {w} :
            /\ deque[v] # << >>
            /\ LET j == Head(deque[v]) IN
               /\ deque' = [deque EXCEPT ![v] = Tail(@)]
               /\ stack' = [stack EXCEPT ![w] = Append(@, j)]
               /\ task' = [task EXCEPT ![j].st = "entry", ![j].mig = TRUE]
    /\ UNCHANGED <<args, env, rows, setup, outdir, tracks, ffmpeg, pc, injected, full, job, outcome, calls,
                   spawns, procs, result, exit_code, first, atfail, stopped>>

\* join_context returns: both halves are done and their results are reduced.
Join(w) ==
    /\ stack[w] # << >>
    /\ task[Top(w)].st \in {"inline", "wait"}
    /\ LET t == Top(w) IN
       /\ task[2 * t].st = "done"
       /\ task[2 * t + 1].st = "done"
       /\ Finish(w, t, Reduce(task[2 * t].res, task[2 * t + 1].res))
    /\ UNCHANGED <<args, env, rows, setup, outdir, tracks, ffmpeg, pc, deque, injected, full, job, outcome,
                   calls, spawns, procs, result, exit_code, first, atfail, stopped>>

ReturnEarly == task[1].st = "done" \/ full

\* try_for_each returns once the root task is done.
RootDone == task[1].st = "done"

\* run() returns the result of try_for_each.
RunReturn ==
    /\ pc \in {"run", "pool"}
    /\ RootDone
    /\ pc' = "returned"
    /\ result' = task[1].res
    /\ UNCHANGED <<args, env, rows, setup, outdir, tracks, ffmpeg, task, stack, deque, injected, full, job,
                   outcome, calls, spawns, procs, exit_code, first, atfail, stopped>>

ExitCodeAlwaysZero(r) == 0

\* main: exit(1) on Err, normal exit otherwise.
ExitCode(r) == IF r # 0 THEN 1 ELSE 0

Main ==
    /\ pc = "returned"
    /\ pc' = "exit"
    /\ exit_code' = ExitCode(result)
    /\ UNCHANGED <<args, env, rows, setup, outdir, tracks, ffmpeg, task, stack, deque, injected, full, job,
                   outcome, calls, spawns, procs, result, first, atfail, stopped>>

Next ==
    \/ Setup
    \/ \E w \in Threads : HelperEntry(w)
    \/ \E w \in Workers : TakeInjected(w)
    \/ \E w \in Threads : StartJob(w)
    \/ \E w \in Threads : EncoderExit(w)
    \/ \E w \in Workers : JoinB(w)
    \/ \E w \in Workers : TakeWork(w)
    \/ \E w \in Workers : Join(w)
    \/ RunReturn
    \/ Main

Spec == Init /\ [][Next]_vars

\* A manifest of one track is converted on the main thread.
NextBuild ==
    \/ Setup
    \/ HelperEntry(MainThread)
    \/ StartJob(MainThread)
    \/ EncoderExit(MainThread)
    \/ RunReturn
    \/ Main

SpecBuild == InitBuild /\ [][NextBuild]_vars


(***************************************************************************)
(* Properties.                                                             *)
(***************************************************************************)
\* run() has returned.
Returned == pc \in {"returned", "exit"}

\* The tracks whose outcome is a failure.
Failed == {i \in 1..N : outcome[i] \in Failures}

MinOf(S) == CHOOSE x \in S : \A y \in S : x <= y

\* The tracks whose encoder is running.
InFlight == {p.track : p \in procs}

\* C1: when two or more jobs have failed in a run, the error run() returns is
\* the one of the failed job with the lowest index in the manifest, whatever
\* the order in which the jobs finished.
C1_LowestFailedIndexReported ==
    (Returned /\ Cardinality(Failed) >= 2) => result = MinOf(Failed)

\* Two jobs failed, the one with the higher index failed first, and the error
\* of the lower one is returned.
C1_Witness ==
    /\ Returned
    /\ Cardinality(Failed) >= 2
    /\ first # MinOf(Failed)
    /\ result = MinOf(Failed)

\* The concurrency is unlimited: --threads is not given or 0, or the pool has
\* a thread for every track.
Unlimited == ~IsSome(args.threads) \/ args.threads = Some(0) \/ PoolSize >= N

\* C2 as stated: given the parsed manifest and unlimited concurrency, when
\* run() returns every track has had convert_track called exactly once and
\* has exactly one outcome.
C2_AllJobsRunOnce ==
    (Returned /\ setup = "ok" /\ Unlimited) => \A i \in 1..N : calls[i] = 1 /\ outcome[i] # "none"

\* C2 amended: convert_track is never called twice for a track, a track has an
\* outcome exactly if convert_track was called for it, and when the manifest
\* was parsed and no job failed every track was converted exactly once.
C2_NoDoubleRun_AllRunUnlessFailure ==
    /\ \A i \in 1..N : calls[i] <= 1
    /\ \A i \in 1..N : outcome[i] # "none" => calls[i] = 1
    /\ Returned => \A i \in 1..N : calls[i] = 1 <=> outcome[i] # "none"
    /\ (Returned /\ setup = "ok" /\ Failed = {}) =>
          \A i \in 1..N : calls[i] = 1 /\ outcome[i] = "ok"

\* A run of several tracks on several threads in which nothing failed and
\* every track was converted once.
C2_Witness ==
    /\ Returned
    /\ N >= 2
    /\ PoolSize >= 2
    /\ Failed = {}
    /\ \A i \in 1..N : calls[i] = 1 /\ outcome[i] = "ok"

\* C3 as stated: once the outcome of some job is a failure, no encoder is
\* started any more.
C3_NoSpawnAfterFailure == [][first # 0 => spawns' = spawns]_vars

\* C3 amended: a thread that has produced a failure itself, or has read the
\* stop flag as set, does not start another job: it is never again about to
\* call convert_track, nor waiting for an encoder.
C3_StoppedThreadStartsNoJob ==
    \A w \in stopped :
        stack[w] = << >> \/ task[Top(w)].st \notin {"ready", "inflight"}

\* A run that ended with a failure in which two threads stopped (the one that
\* failed and one that read the flag) and a track was never started.
C3_Witness ==
    /\ Returned
    /\ first # 0
    /\ Cardinality(stopped) >= 2
    /\ \E i \in 1..N : calls[i] = 0

\* C4: run() returns only when no encoder is running any more, and the
\* encoders that were running when the first failure was produced have all
\* run to their exit; every job that was started has its outcome.
C4_InFlightJobsFinish ==
    Returned =>
        /\ procs = {}
        /\ \A i \in 1..N : calls[i] > 0 => outcome[i] # "none"
        /\ \A p \in atfail : outcome[p.track] \in {"ok", "encode_failed"}

\* run() returned an error, and an encoder that was running when the first
\* failure was produced has exited with status zero.
C4_Witness ==
    /\ Returned
    /\ result # 0
    /\ \E p \in atfail : outcome[p.track] = "ok"

\* The bound C5 states: --threads when positive, else the number of CPU
\* cores.
ConfiguredLimit ==
    IF args.threads = None \/ args.threads = Some(0) THEN NumCpus
    ELSE Unwrap(args.threads)

\* C5 as stated: the number of running encoders is at most --threads when
\* that is positive and at most the number of CPU cores when it is 0 or not
\* given; a thread has at most one running encoder and is blocked in the job
\* it belongs to until it exits.
C5_InFlightBounded ==
    /\ Cardinality(procs) <= ConfiguredLimit
    /\ \A p, q \in procs : p.worker = q.worker => p = q
    /\ \A p \in procs :
          /\ stack[p.worker] # << >>
          /\ task[Top(p.worker)].st = "inflight"
          /\ task[Top(p.worker)].pos = p.track

\* The artist C6 expects for a track.
ExpectedArtist(a, tr) ==
    IF tr.artist # None /\ Unwrap(tr.artist) # << >> THEN tr.artist
    ELSE a.album_artist

\* C6: the artist of a job is the track's own artist if it has one, else the
\* album artist; with neither the job fails with an error naming the track's
\* file and no encoder is started for it.
C6_EffectiveArtist ==
    \A i \in 1..N : calls[i] = 1 =>
        LET e == ExpectedArtist(args, tracks[i]) IN
        IF e # None
        THEN /\ job[i].err = None
             /\ job[i].artist = e
             /\ outcome[i] # "missing_artist"
             /\ \E k \in 1..Len(job[i].meta) : job[i].meta[k] = <<"artist=">> \o Unwrap(e)
        ELSE /\ outcome[i] = "missing_artist"
             /\ job[i].err =
                  Some(<<"Unable to determine artist for track ">> \o tracks[i].file
                       \o <<". Fill in the 'artist' CSV column or use --album-artist">>)
             /\ spawns[i] = 0
             /\ i \notin InFlight
             /\ job[i].argv = << >>

\* A track without artist and without album artist has failed, no encoder was
\* started, and the program has exited with code 1.
C6_Witness ==
    /\ pc = "exit"
    /\ outcome[1] = "missing_artist"
    /\ tracks[1].artist = None
    /\ args.album_artist = None
    /\ spawns[1] = 0
    /\ exit_code = 1

\* C7 as stated: no metadata argument of a job is a bare "key=" with an empty
\* value.
C7_NoEmptyMetadataValue ==
    \A i \in 1..N : \A k \in 1..Len(job[i].meta) : Len(job[i].meta[k]) >= 2

\* The digits C8 expects: the disc number as it is, the track number with at
\* least two digits.
ExpectedDisc(n) ==
    IF n < 10 THEN <<DigitChar(n)>>
    ELSE <<DigitChar(n \div 10), DigitChar(n % 10)>>

ExpectedTrack(n) ==
    IF n < 100 THEN <<DigitChar(n \div 10), DigitChar(n % 10)>>
    ELSE <<DigitChar(n \div 100), DigitChar((n \div 10) % 10), DigitChar(n % 10)>>

ExpectedPrefix(tr) ==
    IF tr.disc # None /\ tr.track # None
    THEN ExpectedDisc(tr.disc[1]) \o <<".">> \o ExpectedTrack(tr.track[1]) \o <<"-">>
    ELSE IF tr.disc # None THEN ExpectedDisc(tr.disc[1]) \o <<"-">>
    ELSE IF tr.track # None THEN ExpectedTrack(tr.track[1]) \o <<"-">>
    ELSE << >>

\* The file name C8 expects for track i.
ExpectedName(i) ==
    ExpectedPrefix(tracks[i]) \o deunicode(Unwrap(job[i].artist)) \o <<"-">>
    \o deunicode(tracks[i].title) \o <<".flac">>

\* C8: the output file of a job is, in the output directory, the file named
\* by the prefix given by disc and track ("1.03-" for disc 1, track 3), the
\* transliterated artist, a dash, the transliterated title and ".flac"; it is
\* the last argument of the encoder.
C8_FilenamePrefix ==
    \A i \in 1..N : (calls[i] = 1 /\ job[i].err = None) =>
        LET o  == Unwrap(job[i].out)
            nm == ExpectedName(i)
            k  == Len(o) - Len(nm)
        IN /\ k >= 0
           /\ SubSeq(o, k + 1, Len(o)) = nm
           /\ SubSeq(o, 1, k) \in {args.output_dir, args.output_dir \o <<"/">>}
           /\ (tracks[i].disc = Some(1) /\ tracks[i].track = Some(3)) =>
                 SubSeq(o, k + 1, k + 5) = <<"1", ".", "0", "3", "-">>
           /\ job[i].argv[Len(job[i].argv)] = o

\* Disc 1, track 3 of artist A, title S is written to out/1.03-A-S.flac, for
\* the output directory "out" as for "out/".
C8_Witness ==
    /\ calls[1] = 1
    /\ args.output_dir = <<"out", "/">>
    /\ tracks[1].disc = Some(1)
    /\ tracks[1].track = Some(3)
    /\ job[1].out = Some(<<"out", "/", "1", ".", "0", "3", "-", "A", "-", "S", ".flac">>)

\* C9 as stated: the program exits with code 0 exactly if every record of the
\* manifest was built into a job, its encoder was started and exited with
\* status zero.
C9_ExitZeroIffAllRecordsOk ==
    pc = "exit" =>
        (exit_code = 0 <=>
            \A i \in 1..N : /\ calls[i] = 1
                             /\ job[i].err = None
                             /\ spawns[i] = 1
                             /\ ffmpeg.exit[i] = "ok"
                             /\ outcome[i] = "ok")

\* C9 amended: the program exits with code 0 exactly if the records of the manifest
\* were read and every one of them was built into a job, its encoder was
\* started and exited with status zero; a failure of any job makes it exit
\* with code 1, as does a failure of a step before the conversion, after
\* which no job is started; no job is run a second time.
C9_ExitCode ==
    /\ \A i \in 1..N : calls[i] <= 1
    /\ pc = "exit" =>
         /\ exit_code = 0 <=>
               /\ setup = "ok"
               /\ \A i \in 1..N : /\ calls[i] = 1
                                  /\ job[i].err = None
                                  /\ spawns[i] = 1
                                  /\ ffmpeg.exit[i] = "ok"
                                  /\ outcome[i] = "ok"
         /\ Failed # {} => exit_code = 1
         /\ setup # "ok" => (exit_code = 1 /\ \A i \in 1..N : calls[i] = 0)
         /\ exit_code \in {0, 1}

\* A run in which the manifest was read, one encoder exited with status zero
\* and another with a non-zero status has ended with exit code 1.
C9_Witness ==
    /\ pc = "exit"
    /\ setup = "ok"
    /\ exit_code = 1
    /\ \E i, j \in 1..N : outcome[i] = "ok" /\ outcome[j] = "encode_failed"

\* C10 as stated: two encoders running at the same time write to different
\* output files.
C10_DisjointOutputs ==
    \A p, q \in procs : p # q => job[p.track].out # job[q.track].out

=============================================================================
